---- MODULE Spec2Model ----
(***************************************************************************)
(* A model of mathics.core.list (ListExpression, LazyListExpression,       *)
(* NumpyArrayListExpression) and of mathics.builtin.numericarray           *)
(* (NumericArray._resolve_dtype, _coerce_to_array, eval_list,              *)
(* eval_normal).                                                           *)
(*                                                                         *)
(* Objects live in a heap, a sequence of records indexed by object         *)
(* identity.  The first NumAtoms entries are the leaf objects the list     *)
(* operations are exercised with; list nodes are appended as the           *)
(* constructors run.  A Python value is encoded as a sequence of           *)
(* integers: a scalar k as <<k>>, a sequence as <<Open>> \o ... \o         *)
(* <<Close>>, so that values of any nesting compare with =.                *)
(***************************************************************************)
EXTENDS Integers, Sequences, FiniteSets, TLC

VARIABLES heap, last, call

vars == <<heap, last, call>>

\* ------------------------------------------------------------------ bounds
\* The number of list nodes the heap may hold besides the leaf objects.
MaxNodes == 2
\* How many times the children of one lazy node may be derived before the
\* model stops reading them (the counter is unbounded in the program).
MaxMake == 2

\* ------------------------------------------------------- leaf objects
\* Integer(1): literal, value 1, not an EvalMixin.
I1 == 1
\* Symbol("x"): not literal, an EvalMixin.
X == 2
\* Expression(Unevaluated, x): has_form("Unevaluated", 1), not literal.
U == 3
\* The symbol System`List itself, the head every list node is built with.
SL == 4
\* String("a"): literal, value "a", not an EvalMixin.
SA == 5
NumAtoms == 5

\* Brackets of the value encoding.
Open == -1
Close == -2
\* The string "a" in the value encoding; the integers stand for themselves.
Str == -3

SymbolList == "List"
SymbolPlus == "Plus"

\* The result of element.evaluate() when it returns None.
NoneObj == 0

Obj(cls, pv, elems, inst, isLit, hasValue, value, props, made, acc) ==
    [cls |-> cls, head |-> IF cls \in {"List", "Lazy"} THEN SymbolList ELSE "",
     pv |-> pv, elems |-> elems, inst |-> inst, isLit |-> isLit,
     hasValue |-> hasValue, value |-> value, props |-> props,
     made |-> made, acc |-> acc]

Atom(cls, pv, isLit) ==
    Obj(cls, pv, <<>>, TRUE, isLit, isLit, <<>>, "none", 0, FALSE)

InitHeap ==
    << Atom("Integer", 1, TRUE), Atom("Symbol", 0, FALSE),
       Atom("Unevaluated", 0, FALSE), Atom("Symbol", 0, FALSE),
       Atom("String", Str, TRUE) >>

IsListNode(h, o) == h[o].cls \in {"List", "Lazy"}

ListNodes(h) == {o \in 1..Len(h) : IsListNode(h, o)}

\* isinstance(element, EvalMixin): symbols and expressions, not numbers.
IsEvalMixin(h, o) == h[o].cls \in {"Symbol", "Unevaluated", "List", "Lazy"}

\* element.has_form("Unevaluated", 1)
HasFormUnevaluated(h, o) == h[o].cls = "Unevaluated"

\* ------------------------------------------------------- value encoding
RECURSIVE Flat(_)
Flat(vs) == IF vs = <<>> THEN <<>> ELSE Head(vs) \o Flat(Tail(vs))

\* element.value of a literal element, encoded.
Enc(h, o) ==
    IF h[o].cls \in {"Integer", "String"} THEN <<h[o].pv>>
    ELSE <<Open>> \o Flat(h[o].value) \o <<Close>>

\* ------------------------------------------------ ListExpression.__init__
\* The scan of list.py 73-82: left to right, stopping at the first element
\* that is not literal; on a full pass the values of the elements.
RECURSIVE ScanFrom(_, _, _, _)
ScanFrom(h, elems, i, values) ==
    IF i > Len(elems) THEN [isLit |-> TRUE, value |-> values]
    ELSE IF h[elems[i]].isLit
         THEN ScanFrom(h, elems, i + 1, Append(values, Enc(h, elems[i])))
         ELSE [isLit |-> FALSE, value |-> <<>>]

\* The node ListExpression.__init__ leaves after the scan s (list.py 81-88).
Scanned(elems, props, s) ==
    Obj("List", 0, elems, TRUE, s.isLit, s.isLit, s.value, props,
        0, FALSE)

\* ListExpression(*elems, elements_properties=props, literal_values=...):
\* litGiven says that literal_values is not None, and then the value is
\* taken as given and the node is literal.
ListInit(h, elems, props, litGiven, literal_values) ==
    IF litGiven
    THEN Obj("List", 0, elems, TRUE, TRUE, TRUE, literal_values, props,
             0, FALSE)
    ELSE Scanned(elems, props, ScanFrom(h, elems, 1, <<>>))

\* ------------------------------------------------ LazyListExpression
\* The setter of the _elements property: self.__elements = e.
SetElements(node, e) == [node EXCEPT !.elems = e, !.inst = TRUE]

\* LazyInit without the reset of __elements to None: the empty tuple the
\* base constructor stored stays in place.
LazyInitKeepsElements(h, value) ==
    SetElements([ListInit(h, <<>>, "none", TRUE, value) EXCEPT !.cls = "Lazy"],
                <<>>)

\* LazyListExpression.__init__(value) as NumpyArrayListExpression calls it:
\* the base constructor stores the empty elements through the setter and
\* takes value as the literal value; then __elements is reset to None.
LazyInit(h, value) ==
    [SetElements([ListInit(h, <<>>, "none", TRUE, value) EXCEPT !.cls = "Lazy"],
                 <<>>) EXCEPT !.inst = FALSE]

\* is_instantiated: self.__elements is not None
is_instantiated(h, n) == h[n].inst

\* isinstance(v, np.ndarray) for an entry of a buffer.
IsArray(v) == Len(v) >= 2 /\ v[1] = Open

\* The entries of the sub-buffer v (buffers have at most two dimensions).
SubBuffer(v) == [i \in 1..(Len(v) - 2) |-> <<v[i + 1]>>]

\* from_python(v.item()) for a scalar: the Integer of an integer, the
\* String of a string.
FromPython(h, v) ==
    CHOOSE a \in 1..NumAtoms :
        h[a].cls \in {"Integer", "String"} /\ h[a].pv = v[1]

\* NumpyArrayListExpression._make_elements: one child per entry of the
\* buffer, a new lazy node for a sub-buffer and a leaf for a scalar.
RECURSIVE MakeFrom(_, _, _, _)
MakeFrom(h, buf, i, out) ==
    IF i > Len(buf) THEN [heap |-> h, elems |-> out]
    ELSE IF IsArray(buf[i])
         THEN MakeFrom(Append(h, LazyInit(h, SubBuffer(buf[i]))), buf, i + 1,
                       Append(out, Len(h) + 1))
         ELSE MakeFrom(h, buf, i + 1, Append(out, FromPython(h, buf[i])))

\* `not self.__elements`: true of None and of the empty tuple.
NotElements(node) == ~node.inst \/ node.elems = <<>>

\* list.py 232-233: the children m made are stored and returned.
Materialized(n, m) ==
    [heap |-> [m.heap EXCEPT ![n] = [SetElements(@, m.elems)
                                        EXCEPT !.made = @ + 1, !.acc = TRUE]],
     elems |-> m.elems]

\* The getter of the _elements property of node n: the heap after the read
\* and the children returned.  A plain list node returns its field.
Elements(h, n) ==
    IF h[n].cls = "Lazy"
    THEN IF NotElements(h[n])
         THEN Materialized(n, MakeFrom(h, h[n].value, 1, <<>>))
         ELSE [heap |-> [h EXCEPT ![n].acc = TRUE], elems |-> h[n].elems]
    ELSE [heap |-> h, elems |-> h[n].elems]

\* ------------------------------------------------ the fixed-point step
\* Expression._build_elements_properties over the elements e read from
\* node n, as far as the step reads it: elements_fully_evaluated says that
\* every element is literal.
PropsBuilt(n, e) ==
    [e.heap EXCEPT ![n].props =
        IF \A i \in 1..Len(e.elems) : e.heap[e.elems[i]].isLit
        THEN "full" ELSE "partial"]

BuildProps(h, n) == PropsBuilt(n, Elements(h, n))

\* ListExpression.shallow_copy: a new node over the elements e read from
\* node n, with the elements_properties of n; the literal cache is scanned
\* anew.
ShallowCopied(n, e) ==
    [heap |-> Append(e.heap,
                     ListInit(e.heap, e.elems, e.heap[n].props, FALSE, <<>>)),
     id |-> Len(e.heap) + 1]

ShallowCopyNode(h, n) == ShallowCopied(n, Elements(h, n))

\* Whether evaluate_elements calls element.evaluate on element o.
Evaluated(h, o) == ~HasFormUnevaluated(h, o) /\ IsEvalMixin(h, o)

\* What element.evaluate(evaluation) may return for element o: None, the
\* element itself, or another object (for a symbol the value bound to it,
\* for a list node any list node of the heap).
EvalResults(h, o) ==
    IF h[o].cls = "Symbol" THEN {NoneObj, o, I1}
    ELSE {NoneObj, o} \cup (ListNodes(h) \ {o})

\* The element evaluate_elements leaves at an index, given the result
\* new_value of evaluating it (list.py 120-122).
Replaced(element, new_value) ==
    IF new_value # NoneObj /\ element # new_value THEN new_value ELSE element

\* list.py 127-129: the new list over the updated elements, with its
\* elements properties built; h holds the new list as its last object.
NewListBuilt(h, evald) ==
    [heap |-> BuildProps(h, Len(h)), id |-> Len(h), evald |-> evald,
     changed |-> TRUE]

\* Rebuilt with the literal cache of the new node copied from node s
\* instead of scanned from the updated elements.
RebuiltWithStaleCache(h, s, old, elements, evald) ==
    IF elements = old
    THEN [heap |-> h, id |-> s, evald |-> evald, changed |-> FALSE]
    ELSE NewListBuilt(
             Append(h, [ListInit(h, elements, "none", FALSE, <<>>)
                           EXCEPT !.isLit = h[s].isLit,
                                  !.hasValue = h[s].hasValue,
                                  !.value = h[s].value]),
             evald)

\* list.py 124-129: node s itself when no element changed identity, else a
\* new node built from the updated elements.
Rebuilt(h, s, old, elements, evald) ==
    IF elements = old
    THEN [heap |-> h, id |-> s, evald |-> evald, changed |-> FALSE]
    ELSE NewListBuilt(Append(h, ListInit(h, elements, "none", FALSE, <<>>)),
                      evald)

\* list.py 112-122 over the elements e read from node s, where f[i] is the
\* result of evaluating element i.
ElementsEvaluated(s, f, e) ==
    Rebuilt(e.heap, s, e.elems,
            [i \in 1..Len(e.elems) |->
                IF Evaluated(e.heap, e.elems[i])
                THEN Replaced(e.elems[i], f[i]) ELSE e.elems[i]],
            Cardinality({i \in 1..Len(e.elems) : Evaluated(e.heap, e.elems[i])}))

\* ListExpression.evaluate_elements on node s.
EvaluateElements(h, s, f) == ElementsEvaluated(s, f, Elements(h, s))

\* The heap without the temporary object t, which nothing refers to: the
\* object allocated after it takes its place.
Release(h, t) == SubSeq(h, 1, t - 1) \o SubSeq(h, t + 1, Len(h))

\* list.py 164-165: what the step returns after evaluate_elements returned
\* r on the shallow copy sc.  The flag is False on this path too.
StepEvaluated(sc, r) ==
    IF r.id = sc
    THEN [heap |-> r.heap, res |-> sc, flag |-> FALSE, evald |-> r.evald,
          changed |-> r.changed]
    ELSE [heap |-> Release(r.heap, sc), res |-> sc, flag |-> FALSE,
          evald |-> r.evald, changed |-> r.changed]

StepCopied(sc, f) == StepEvaluated(sc.id, EvaluateElements(sc.heap, sc.id, f))

\* StepBuilt without the test of elements_fully_evaluated: the elements are
\* always evaluated on a copy.
StepBuiltAlwaysEvaluates(h, n, f) == StepCopied(ShallowCopyNode(h, n), f)

\* list.py 163-166, once the elements properties of n are there.
StepBuilt(h, n, f) ==
    IF h[n].props # "full"
    THEN StepCopied(ShallowCopyNode(h, n), f)
    ELSE [heap |-> h, res |-> n, flag |-> FALSE, evald |-> 0,
          changed |-> FALSE]

\* ListExpression.rewrite_apply_eval_step on node n: the heap afterwards,
\* the node returned, the flag returned, the number of evaluate calls and
\* whether evaluate_elements found an element changed (elements_changed).
RewriteApplyEvalStep(h, n, f) ==
    StepBuilt(IF h[n].props = "none" THEN BuildProps(h, n) ELSE h, n, f)

\* set_head as a plain expression has it: the head is assigned.
SetHeadAssigns(h, n, head) ==
    [heap |-> [h EXCEPT ![n].head = head], err |-> FALSE]

\* ListExpression.set_head: raises TypeError for any head but System`List
\* and assigns nothing.
SetHeadNode(h, n, head) ==
    [heap |-> h, err |-> head # SymbolList]

\* ListExpression.copy: a node built from the copied head alone, whose
\* elements are then replaced by copies of the elements of n.  Leaves copy
\* to themselves (Atom.copy); list elements are copied by this method.
RECURSIVE CopyNode(_, _)
RECURSIVE CopyElems(_, _, _, _)
RECURSIVE CopyNext(_, _, _, _)
CopyNext(c, elems, i, out) == CopyElems(c.heap, elems, i + 1, Append(out, c.id))
CopyElems(h, elems, i, out) ==
    IF i > Len(elems) THEN [heap |-> h, elems |-> out]
    ELSE CopyNext(CopyNode(h, elems[i]), elems, i, out)
\* list.py 187: the copies c of the elements are assigned to the new node.
CopyAssigned(id, c) ==
    [heap |-> [c.heap EXCEPT ![id].elems = c.elems], id |-> id]
CopyOver(id, e) == CopyAssigned(id, CopyElems(e.heap, e.elems, 1, <<>>))
CopyInto(h, n) == CopyOver(Len(h), Elements(h, n))
CopyNode(h, n) ==
    IF ~IsListNode(h, n) THEN [heap |-> h, id |-> n]
    ELSE CopyInto(Append(h, ListInit(h, <<SL>>, "none", FALSE, <<>>)), n)

\* ------------------------------------------------------------ inputs
\* The element tuples the constructors are called with: leaves, mixes of
\* literal and non-literal leaves, and nested list nodes.
ElementInputs(h) ==
    {<<>>, <<I1>>, <<I1, X>>, <<U, X>>} \cup {<<n>> : n \in ListNodes(h)}

\* The element tuples and literal values the constructor is given together:
\* the value of the elements, a value of another length, and a value for
\* an element that is not literal.
LiteralInputs ==
    {[elems |-> <<I1>>, value |-> <<<<1>>>>], [elems |-> <<I1>>, value |-> <<>>],
     [elems |-> <<X>>, value |-> <<<<1>>>>]}

\* Dense buffers: [], [1], [[1]], [[1], [1]] and the buffer of strings
\* ["a"].
Buffers ==
    {<<>>, <<<<1>>>>, <<<<Open, 1, Close>>>>,
     <<<<Open, 1, Close>>, <<Open, 1, Close>>>>, <<<<Str>>>>}

Heads == {SymbolList, SymbolPlus}

\* The results the evaluations of the elements e of a node may have: one
\* per element evaluate_elements evaluates, None for the others.
EvalChoicesOf(e) ==
    {f \in [1..Len(e.elems) -> 0..Len(e.heap)] :
        \A i \in 1..Len(e.elems) :
            IF Evaluated(e.heap, e.elems[i])
            THEN f[i] \in EvalResults(e.heap, e.elems[i])
            ELSE f[i] = NoneObj}

EvalChoices(h, n) == EvalChoicesOf(Elements(h, n))

\* The heap fits the bounds.
Fits(h) ==
    /\ Len(h) <= NumAtoms + MaxNodes
    /\ \A o \in 1..Len(h) : h[o].made <= MaxMake


\* ================================================== NumericArray builtin
\* A number is [cat, n, im]: n and im count halves, so that 1 is n = 2 and
\* 1.5 is n = 3; im is the imaginary part of a complex.  The cat of a
\* Mathics atom is "Integer", "Real", "Complex", "String" or "Symbol"; the
\* cat of a Python or numpy scalar is "int", "float", "complex", "bool",
\* "str" or "object".
Num(cat, n, im) == [cat |-> cat, n |-> n, im |-> im]

\* Integer(1), Integer(300), Real(1.5), Complex(1, 1), String("a") and
\* Symbol("x"), the leaves of the lists given as data.
IntOne == Num("Integer", 2, 0)
IntBig == Num("Integer", 600, 0)
FloatOneHalf == Num("Real", 3, 0)
ComplexOne == Num("Complex", 2, 2)
StrA == Num("String", 0, 0)
SymX == Num("Symbol", 0, 0)

\* An element tag (numpy dtype): category, width in bits, signedness.
Tag(cat, bits, signed) == [cat |-> cat, bits |-> bits, signed |-> signed]

\* dtype None
NoTag == Tag("none", 0, FALSE)

\* _is_numeric_dtype
IsNumericDtype(dtype) == dtype.cat \in {"int", "float", "complex"}

\* NUMERIC_ARRAY_TYPE_MAP: the registered names and their tags.
RegisteredNames == {"Integer8", "UnsignedInteger8", "Integer64", "Real64",
                    "Complex128"}

NumericArrayTypeMap(name) ==
    CASE name = "Integer8" -> Tag("int", 8, TRUE)
      [] name = "UnsignedInteger8" -> Tag("int", 8, FALSE)
      [] name = "Integer64" -> Tag("int", 64, TRUE)
      [] name = "Real64" -> Tag("float", 64, TRUE)
      [] name = "Complex128" -> Tag("complex", 128, TRUE)

\* numpy.dtype(key) for the descriptors it parses; it raises TypeError for
\* every other key.
RawDescriptors == {"int16", "bool"}

NumpyDtype(name) ==
    CASE name = "int16" -> Tag("int", 16, TRUE)
      [] name = "bool" -> Tag("bool", 8, FALSE)

\* A key of _resolve_dtype: t says what Python value it is ("none", "str",
\* "num", "list"), s is the string, truthy its truth value.
Key(t, str, truthy) == [t |-> t, s |-> str, truthy |-> truthy]

\* A type specification: a Symbol with a name, a String with a value, or
\* another element, for which py is what its to_python returns ("raise"
\* when it raises).
TypeSpec(kind, name, py) == [kind |-> kind, name |-> name, py |-> py]

\* What typespec.to_python(string_quotes=False) returns for an element
\* that is neither Symbol nor String: a nested primitive value.
ToPythonKey(py) ==
    CASE py = "raise" -> Key("none", "", FALSE)
      [] py = "zero" -> Key("num", "", FALSE)
      [] py = "number" -> Key("num", "", TRUE)
      [] py = "list" -> Key("list", "", TRUE)
      [] py = "empty_list" -> Key("list", "", FALSE)
      [] py = "Automatic" -> Key("str", "Automatic", TRUE)

\* The result of _resolve_dtype: the tag, the validity flag, the messages
\* reported (each with the type specification as its argument) and whether
\* an exception left the method.
Resolved(dtype, valid, msgs, raised) ==
    [dtype |-> dtype, valid |-> valid, msgs |-> msgs, raised |-> raised]

TypeMessage == Resolved(NoTag, FALSE, <<"type">>, FALSE)

\* numericarray.py 131-135
ResolveChecked(dtype) ==
    IF ~IsNumericDtype(dtype) THEN TypeMessage
    ELSE Resolved(dtype, TRUE, <<>>, FALSE)

\* numericarray.py 119-129: the lookup of a key in the registry, which
\* hashes the key, then numpy.dtype.
ResolveKey(key) ==
    IF ~key.truthy THEN TypeMessage
    ELSE IF key.t = "list" THEN Resolved(NoTag, FALSE, <<>>, TRUE)
    ELSE IF key.t = "str" /\ key.s \in RegisteredNames
         THEN ResolveChecked(NumericArrayTypeMap(key.s))
    ELSE IF key.t = "str" /\ key.s \in RawDescriptors
         THEN ResolveChecked(NumpyDtype(key.s))
    ELSE TypeMessage

\* numericarray.py 116-117
ResolveOther(key) ==
    IF key.t = "str" /\ key.s = "Automatic"
    THEN Resolved(NoTag, TRUE, <<>>, FALSE)
    ELSE ResolveKey(key)

\* NumericArray._resolve_dtype
ResolveDtype(typespec) ==
    IF typespec.kind = "Symbol"
    THEN IF typespec.name = "Automatic"
         THEN Resolved(NoTag, TRUE, <<>>, FALSE)
         ELSE ResolveKey(Key("str", typespec.name, typespec.name # ""))
    ELSE IF typespec.kind = "String"
    THEN IF typespec.name = "Automatic"
         THEN Resolved(NoTag, TRUE, <<>>, FALSE)
         ELSE ResolveKey(Key("str", typespec.name, typespec.name # ""))
    ELSE ResolveOther(ToPythonKey(typespec.py))

\* ------------------------------------------------------------ coercion
\* A dense buffer (numpy.ndarray): id is its identity, tag its dtype,
\* shape its shape, flat its entries in row-major order.
Array(id, tag, shape, flat) ==
    [id |-> id, tag |-> tag, shape |-> shape, flat |-> flat]

\* No buffer (None).
NoArray == Array(0, NoTag, <<>>, <<>>)

\* The data argument.  kind is "atom" for a NumericArrayAtom, "wrapped_value"
\* for a NumericArray expression whose value is a buffer, "wrapped_atom" for
\* one whose first element is an atom, "wrapped_none" for one with neither,
\* and "list" for a list of dim levels whose rows hold the leaves.  buf is
\* the buffer of an atom or of a wrapped array, py is "raise" when
\* to_python of the data raises.
Data(kind, dim, rows, buf, py) ==
    [kind |-> kind, dim |-> dim, rows |-> rows, buf |-> buf, py |-> py]

RECURSIVE Ravel(_)
\* The leaves of the rows in row-major order.
Ravel(rows) == IF rows = <<>> THEN <<>> ELSE Head(rows) \o Ravel(Tail(rows))

\* The rows of a list have different lengths.
IsRagged(data) ==
    \E i \in 1..Len(data.rows) : Len(data.rows[i]) # Len(data.rows[1])

\* data.is_literal of a list: every leaf is literal, as ListExpression's
\* scan finds; a Symbol is the leaf that is not.
DataIsLiteral(data) ==
    \A i \in 1..Len(Ravel(data.rows)) : Ravel(data.rows)[i].cat # "Symbol"

\* element.value of a leaf, to_python for a leaf of a list that is not
\* literal: the Python scalar of a Mathics atom.
ValueOf(leaf) ==
    Num(CASE leaf.cat = "Integer" -> "int"
          [] leaf.cat = "Real" -> "float"
          [] leaf.cat = "Complex" -> "complex"
          [] leaf.cat = "String" -> "str"
          [] leaf.cat = "Symbol" -> "object",
        leaf.n, leaf.im)

\* The shape numpy gives the buffer of a list that is not ragged.
ShapeOf(data) ==
    IF data.dim = 1 THEN <<Len(data.rows[1])>>
    ELSE <<Len(data.rows), Len(data.rows[1])>>

\* The dtype numpy.asarray infers when none is given.
NaturalTagOf(cats) ==
    IF "object" \in cats THEN Tag("object", 0, FALSE)
    ELSE IF "str" \in cats THEN Tag("str", 32, FALSE)
    ELSE IF "complex" \in cats THEN Tag("complex", 128, TRUE)
    ELSE IF "float" \in cats \/ cats = {} THEN Tag("float", 64, TRUE)
    ELSE Tag("int", 64, TRUE)

NaturalTag(flat) == NaturalTagOf({flat[i].cat : i \in 1..Len(flat)})

\* Rounding toward zero of n halves.
Trunc(n) == IF n >= 0 THEN n \div 2 ELSE -((-n) \div 2)

\* The integer t is within the range of an integer tag; the values of the
\* model are within the range of every tag wider than 16 bits.
FitsTag(t, tag) ==
    \/ tag.bits > 16
    \/ IF tag.signed THEN -(2 ^ (tag.bits - 1)) <= t /\ t < 2 ^ (tag.bits - 1)
       ELSE 0 <= t /\ t < 2 ^ tag.bits

\* The integer t reduced to the width of an integer tag.
Wrapped(m, tag) ==
    IF tag.signed /\ m >= 2 ^ (tag.bits - 1) THEN m - 2 ^ tag.bits ELSE m

Wrap(t, tag) == IF FitsTag(t, tag) THEN t ELSE Wrapped(t % (2 ^ tag.bits), tag)

\* The C cast of the scalar v to a numeric tag, as ndarray.astype does it.
CastNumpy(v, tag) ==
    IF tag.cat = "int" THEN Num("int", 2 * Wrap(Trunc(v.n), tag), 0)
    ELSE IF tag.cat = "float" THEN Num("float", v.n, 0)
    ELSE Num("complex", v.n, v.im)

\* The outcome of converting one Python scalar: ok is FALSE when numpy
\* raises.
Cast(ok, v) == [ok |-> ok, v |-> v]

\* numpy.asarray's conversion of the Python scalar v to the tag.  A string
\* or an object has no number, a complex no real number; a Python int out
\* of the tag's range is reduced by the builds that wrap and raises
\* OverflowError in the others.
CastPython(v, tag, ovf) ==
    IF tag.cat \in {"object", "str"} THEN Cast(TRUE, v)
    ELSE IF v.cat \in {"object", "str"} THEN Cast(FALSE, v)
    ELSE IF v.cat = "complex" /\ tag.cat # "complex" THEN Cast(FALSE, v)
    ELSE IF /\ tag.cat = "int" /\ v.cat = "int"
            /\ ~FitsTag(Trunc(v.n), tag) /\ ovf = "raise" THEN Cast(FALSE, v)
    ELSE Cast(TRUE, CastNumpy(v, tag))

\* The result of numpy.asarray: the buffer, or raised.
AsArrayResult(raised, array) == [raised |-> raised, array |-> array]

AsArrayConverted(shape, tag, conv) ==
    IF \E i \in 1..Len(conv) : ~conv[i].ok THEN AsArrayResult(TRUE, NoArray)
    ELSE AsArrayResult(FALSE,
             Array(2, tag, shape, [i \in 1..Len(conv) |-> conv[i].v]))

AsArrayOf(shape, flat, tag, ovf) ==
    AsArrayConverted(shape, tag,
        [i \in 1..Len(flat) |-> CastPython(flat[i], tag, ovf)])

AsArrayFlat(shape, flat, dtype, ovf) ==
    AsArrayOf(shape, flat, IF dtype = NoTag THEN NaturalTag(flat) ELSE dtype,
              ovf)

\* numpy.asarray(value, dtype=dtype) for the nested value of a list.  A
\* ragged value raises ValueError when a dtype is given; without one the
\* builds differ: an array of row objects, or ValueError.
AsArray(data, dtype, ovf, rag) ==
    IF IsRagged(data)
    THEN IF dtype # NoTag \/ rag = "raise" THEN AsArrayResult(TRUE, NoArray)
         ELSE AsArrayResult(FALSE,
                  Array(2, Tag("object", 0, FALSE), <<Len(data.rows)>>, <<>>))
    ELSE AsArrayFlat(ShapeOf(data),
             [i \in 1..Len(Ravel(data.rows)) |-> ValueOf(Ravel(data.rows)[i])],
             dtype, ovf)

\* array.astype(dtype): a new buffer.
AsType(array, dtype) ==
    Array(3, dtype, array.shape,
          [i \in 1..Len(array.flat) |-> CastNumpy(array.flat[i], dtype)])

\* The result of _coerce_to_array: ok is FALSE for None.
Coerced(ok, array, raised) == [ok |-> ok, array |-> array, raised |-> raised]

CoerceNone == Coerced(FALSE, NoArray, FALSE)

\* numericarray.py 166-172
CoerceChecked(array) ==
    IF array.tag.cat = "object" THEN CoerceNone
    ELSE IF ~IsNumericDtype(array.tag) THEN CoerceNone
    ELSE Coerced(TRUE, array, FALSE)

\* A cast that is never made.
NeverCast(array, dtype) == array

\* numericarray.py 163-164
CastIfNeeded(array, dtype) ==
    IF dtype # NoTag /\ array.tag # dtype THEN AsType(array, dtype) ELSE array

CoerceFinish(array, dtype) == CoerceChecked(CastIfNeeded(array, dtype))

\* numericarray.py 151-152: the exception of numpy.asarray leaves the
\* method.
CoerceLiteral(r, dtype) ==
    IF r.raised THEN Coerced(FALSE, NoArray, TRUE)
    ELSE CoerceFinish(r.array, dtype)

\* numericarray.py 158-161
CoerceGeneric(r, dtype) ==
    IF r.raised THEN CoerceNone ELSE CoerceFinish(r.array, dtype)

\* NumericArray._coerce_to_array
CoerceToArray(data, dtype, ovf, rag) ==
    IF data.kind = "atom" THEN CoerceFinish(data.buf, dtype)
    ELSE IF data.kind \in {"wrapped_value", "wrapped_atom"}
         THEN CoerceFinish(data.buf, dtype)
    ELSE IF data.kind = "wrapped_none" THEN CoerceNone
    ELSE IF DataIsLiteral(data)
         THEN CoerceLiteral(AsArray(data, dtype, ovf, rag), dtype)
    ELSE IF data.py = "raise" THEN CoerceNone
    ELSE CoerceGeneric(AsArray(data, dtype, ovf, rag), dtype)

\* from_python of a Python scalar: the Mathics atom.
from_python(v) ==
    Num(CASE v.cat = "int" -> "Integer"
          [] v.cat = "float" -> "Real"
          [] v.cat = "complex" -> "Complex"
          [] v.cat = "bool" -> "Symbol"
          [] v.cat = "str" -> "String"
          [] v.cat = "object" -> "Symbol",
        v.n, v.im)

\* A nested list: dim levels, the leaves in rows.
Nested(dim, rows) == [dim |-> dim, rows |-> rows]

NoNested == Nested(0, <<>>)

\* from_python(array.tolist()): tolist nests the flat entries by the shape,
\* from_python turns every scalar into an atom.
Normal(array) ==
    IF Len(array.shape) = 1
    THEN Nested(1, <<[i \in 1..Len(array.flat) |-> from_python(array.flat[i])]>>)
    ELSE Nested(2, [r \in 1..array.shape[1] |->
                      [c \in 1..array.shape[2] |->
                          from_python(array.flat[(r - 1) * array.shape[2] + c])]])

\* ------------------------------------------------- NumericArray inputs
\* The longest row of a list given as data.
MaxLen == 2

Leaves == {IntOne, IntBig, FloatOneHalf, ComplexOne, StrA, SymX}

RowsOver(leaves, lo) == UNION {[1..k -> leaves] : k \in lo..MaxLen}

\* Buffers of existing atoms: uint8 [1, 200] and float64 [[1.5]].
AtomBuffers ==
    {Array(1, Tag("int", 8, FALSE), <<2>>,
           <<Num("int", 2, 0), Num("int", 400, 0)>>),
     Array(1, Tag("float", 64, TRUE), <<1, 1>>, <<Num("float", 3, 0)>>)}

\* A buffer of Booleans, which a NumericArray expression may carry as its
\* value.
BoolBuffer == Array(1, Tag("bool", 8, FALSE), <<1>>, <<Num("bool", 2, 0)>>)

DataInputs ==
    {Data("list", 1, <<r>>, NoArray, "ok") : r \in RowsOver(Leaves, 0)}
    \cup {Data("list", 2, <<r1, r2>>, NoArray, "ok") :
             r1, r2 \in RowsOver({IntOne, FloatOneHalf}, 1)}
    \cup {Data("list", 1, <<<<SymX>>>>, NoArray, "raise")}
    \cup {Data("atom", 0, <<>>, b, "ok") : b \in AtomBuffers}
    \cup {Data("wrapped_value", 0, <<>>, b, "ok") :
             b \in AtomBuffers \cup {BoolBuffer}}
    \cup {Data("wrapped_atom", 0, <<>>, b, "ok") : b \in AtomBuffers}
    \cup {Data("wrapped_none", 0, <<>>, NoArray, "ok")}

TypeSpecInputs ==
    {TypeSpec("Symbol", n, "") : n \in {"Automatic", "Integer8", "Foo"}}
    \cup {TypeSpec("String", n, "") :
             n \in {"Automatic", "UnsignedInteger8", "Integer64", "Real64",
                    "Complex128", "int16", "bool", "nonsense", ""}}
    \cup {TypeSpec("Other", "", py) :
             py \in {"raise", "zero", "number", "list", "empty_list",
                     "Automatic"}}

\* One call of NumericArray[data, typespec] and what became of it.  pc is
\* "pending" before eval_list ran, "listed" after it, "normal" after
\* eval_normal; ovf and rag say what the numpy of the build does with an
\* integer out of range and with a ragged value; resolved is the result of
\* _resolve_dtype, result is "atom", "failed" ($Failed) or "raised", msgs
\* the messages reported, array the buffer of the atom, normal the result
\* of eval_normal.
Call(pc, data, typespec, ovf, rag, resolved, result, msgs, array, normal) ==
    [pc |-> pc, data |-> data, typespec |-> typespec, ovf |-> ovf,
     rag |-> rag, resolved |-> resolved, result |-> result, msgs |-> msgs,
     array |-> array, normal |-> normal]

Pending(data, typespec, ovf, rag) ==
    Call("pending", data, typespec, ovf, rag, Resolved(NoTag, FALSE, <<>>, FALSE),
         "none", <<>>, NoArray, NoNested)

PendingCalls ==
    {Pending(d, t, ovf, rag) :
        d \in DataInputs, t \in TypeSpecInputs,
        ovf \in {"wrap", "raise"}, rag \in {"object", "raise"}}

\* numericarray.py 56-70 with the outcome of the two helpers.
Outcome(c, r, result, msgs, array) ==
    [c EXCEPT !.pc = "listed", !.resolved = r, !.result = result,
              !.msgs = msgs, !.array = array]

EvalListCoerced(c, r, a) ==
    IF a.raised THEN Outcome(c, r, "raised", <<>>, NoArray)
    ELSE IF ~a.ok THEN Outcome(c, r, "failed", <<"data">>, NoArray)
    ELSE Outcome(c, r, "atom", <<>>, a.array)

EvalListResolved(c, r) ==
    IF r.raised THEN Outcome(c, r, "raised", r.msgs, NoArray)
    ELSE IF ~r.valid THEN Outcome(c, r, "failed", r.msgs, NoArray)
    ELSE EvalListCoerced(c, r, CoerceToArray(c.data, r.dtype, c.ovf, c.rag))


\* ------------------------------------------------------------ actions

\* What the last operation returned, kept for the operations whose result
\* is not a field of the heap: op names it, node is the node it was called
\* on, res the object returned, flag the Boolean returned, err whether it
\* raised, evald the number of element.evaluate calls it made, changed
\* whether evaluate_elements replaced an element.
Last(op, node, res, flag, err, evald, changed) ==
    [op |-> op, node |-> node, res |-> res, flag |-> flag, err |-> err,
     evald |-> evald, changed |-> changed]
Other == Last("other", 0, 0, FALSE, FALSE, 0, FALSE)

\* No call of NumericArray is under way while the list operations run.
NoCall == Pending(Data("wrapped_none", 0, <<>>, NoArray, "ok"),
                  TypeSpec("Symbol", "Automatic", ""), "wrap", "object")

Init ==
    /\ heap = InitHeap
    /\ last = Other
    /\ call = NoCall

\* An operation left heap h.
Done(h, result) ==
    /\ Fits(h)
    /\ heap' = h
    /\ last' = result
    /\ UNCHANGED call

\* ListExpression(*elems)
NewList ==
    \E elems \in ElementInputs(heap) :
        Done(Append(heap, ListInit(heap, elems, "none", FALSE, <<>>)), Other)

\* ListExpression(*elems, literal_values=v)
NewListLiteral ==
    \E c \in LiteralInputs :
        Done(Append(heap, ListInit(heap, c.elems, "none", TRUE, c.value)), Other)

\* NumpyArrayListExpression(buf)
NewLazy ==
    \E buf \in Buffers :
        Done(Append(heap, LazyInit(heap, buf)), Other)

\* node.value of a lazy node: the source value, which is always set.
ReadValue ==
    \E n \in ListNodes(heap) :
        /\ heap[n].cls = "Lazy"
        /\ Done(heap, Last("value", n, n, FALSE, ~heap[n].hasValue, 0, FALSE))

\* node.is_literal of a lazy node
ReadIsLiteral ==
    \E n \in ListNodes(heap) :
        /\ heap[n].cls = "Lazy"
        /\ Done(heap, Last("is_literal", n, n, heap[n].isLit, FALSE, 0, FALSE))

ElementsRead(e) == Done(e.heap, Other)

\* node.elements, node[i], str(node): a read of the children.
ReadElements ==
    \E n \in ListNodes(heap) : ElementsRead(Elements(heap, n))

Stepped(n, r) ==
    Done(r.heap, Last("step", n, r.res, r.flag, FALSE, r.evald, r.changed))

\* node.rewrite_apply_eval_step(evaluation)
Step ==
    \E n \in ListNodes(heap) :
        \E f \in EvalChoices(heap, n) :
            Stepped(n, RewriteApplyEvalStep(heap, n, f))

Copied(c) == Done(c.heap, Other)

\* node.shallow_copy()
ShallowCopy ==
    \E n \in ListNodes(heap) : Copied(ShallowCopyNode(heap, n))

\* node.copy()
Copy ==
    \E n \in ListNodes(heap) : Copied(CopyNode(heap, n))

\* The flag records whether the head given was another head than the list's.
HeadSet(head, r) ==
    Done(r.heap, Last("set_head", 0, 0, head # SymbolList, r.err, 0, FALSE))

\* node.set_head(head)
SetHead ==
    \E n \in ListNodes(heap), head \in Heads :
        HeadSet(head, SetHeadNode(heap, n, head))

Next ==
    \/ NewList
    \/ NewListLiteral
    \/ NewLazy
    \/ ReadValue
    \/ ReadIsLiteral
    \/ ReadElements
    \/ Step
    \/ ShallowCopy
    \/ Copy
    \/ SetHead

Spec == Init /\ [][Next]_vars

\* The calls of NumericArray: every pending call the inputs give.
InitNA ==
    /\ heap = InitHeap
    /\ last = Other
    /\ call \in PendingCalls

\* NumericArray.eval_list
EvalList ==
    /\ call.pc = "pending"
    /\ call' = EvalListResolved(call, ResolveDtype(call.typespec))
    /\ UNCHANGED <<heap, last>>

\* NumericArray.eval_normal on the atom eval_list returned
EvalNormal ==
    /\ call.pc = "listed"
    /\ call.result = "atom"
    /\ call' = [call EXCEPT !.pc = "normal", !.normal = Normal(call.array)]
    /\ UNCHANGED <<heap, last>>

NextNA == EvalList \/ EvalNormal

SpecNA == InitNA /\ [][NextNA]_vars

\* ------------------------------------------------------------ claims
LazyNodes(h) == {n \in ListNodes(h) : h[n].cls = "Lazy"}

\* Every element of node n is literal (final).
AllFinal(h, n) == \A i \in 1..Len(h[n].elems) : h[h[n].elems[i]].isLit

\* C1: a dense lazy node is instantiated exactly when its children have
\* been read: not after construction, not after reads of value or
\* is_literal, and from the first read of the children on.
C1_InstantiatedIffRead ==
    \A n \in LazyNodes(heap) : is_instantiated(heap, n) <=> heap[n].acc

\* One lazy node whose children were read and are there, and another whose
\* value was just read and which is still not instantiated.
C1_Witness ==
    \E n, m \in LazyNodes(heap) :
        /\ heap[n].acc /\ is_instantiated(heap, n) /\ heap[n].elems # <<>>
        /\ last.op = "value" /\ last.node = m
        /\ ~heap[m].acc /\ ~is_instantiated(heap, m)

\* C2: _make_elements runs exactly once over the life of a lazy node, at
\* the first read of its children, whatever the source value.
C2_MadeOnce ==
    \A n \in LazyNodes(heap) : heap[n].made = IF heap[n].acc THEN 1 ELSE 0

\* C3: a step on a node whose elements are all final returns the same node
\* with the flag False and evaluates no element.
C3_FinalStepReturnsSelf ==
    (last.op = "step" /\ AllFinal(heap, last.node))
        => (last.res = last.node /\ last.flag = FALSE /\ last.evald = 0)

\* A step on a node with at least one element, all of them final.
C3_Witness ==
    /\ last.op = "step"
    /\ heap[last.node].elems # <<>>
    /\ AllFinal(heap, last.node)
    /\ last.res = last.node

\* What a step that replaced an element leaves: a new node over elements of
\* which one differs from the original's, its literal cache the scan of
\* those elements, and the original node's elements and literal cache as
\* they were.
StepRebuilt(h, hp, n, r) ==
    /\ r # n
    /\ hp[r].cls = "List"
    /\ Len(hp[r].elems) = Len(h[n].elems)
    /\ \E i \in 1..Len(hp[r].elems) : hp[r].elems[i] # h[n].elems[i]
    /\ hp[r].isLit = ScanFrom(hp, hp[r].elems, 1, <<>>).isLit
    /\ hp[r].hasValue = hp[r].isLit
    /\ hp[r].value = ScanFrom(hp, hp[r].elems, 1, <<>>).value
    /\ hp[n].elems = h[n].elems
    /\ hp[n].isLit = h[n].isLit
    /\ hp[n].hasValue = h[n].hasValue
    /\ hp[n].value = h[n].value

\* C4 as amended: a step that replaces an element returns a new node whose
\* literal cache is scanned from the updated elements and leaves the
\* original alone; the flag it returns is False, as on every path.
C4_ChangedStepRebuilds ==
    [][(last'.op = "step" /\ last'.changed)
          => (StepRebuilt(heap, heap', last'.node, last'.res)
              /\ last'.flag = FALSE)]_vars

\* C4 as claimed: the same, with the flag signalling the change.
C4_ChangedStepSignals ==
    [][(last'.op = "step" /\ last'.changed)
          => (StepRebuilt(heap, heap', last'.node, last'.res)
              /\ last'.flag = TRUE)]_vars

\* A step replaced an element of a node that was not literal and returned a
\* literal node.
C4_Witness ==
    /\ last.op = "step" /\ last.changed
    /\ ~heap[last.node].isLit
    /\ heap[last.res].isLit

C10_HeadIsFixed ==
    /\ [](\A n \in ListNodes(heap) : heap[n].head = SymbolList)
    /\ [][(last'.op = "set_head" /\ last'.flag)
             => (last'.err /\ heap' = heap)]_vars

\* set_head was called with another head and raised.
C10_Witness == last.op = "set_head" /\ last.flag /\ last.err

\* The leaves of a list given as data.
LeavesOf(data) == Ravel(data.rows)

\* A nested list of numbers with rows of one length.
ValidNumericList(data) ==
    /\ data.kind = "list"
    /\ data.py = "ok"
    /\ ~IsRagged(data)
    /\ \A i \in 1..Len(LeavesOf(data)) :
           LeavesOf(data)[i].cat \in {"Integer", "Real", "Complex"}

\* The element category of the round trip: that of the requested tag, the
\* inferred one when the type specification is Automatic.
ElementCategory(dtype, data) ==
    IF dtype # NoTag THEN dtype.cat
    ELSE NaturalTag([i \in 1..Len(LeavesOf(data)) |-> ValueOf(LeavesOf(data)[i])]).cat

\* A leaf as a number of the category.
CategoryCast(leaf, cat) ==
    IF cat = "int" THEN Num("Integer", 2 * Trunc(leaf.n), 0)
    ELSE IF cat = "float" THEN Num("Real", leaf.n, 0)
    ELSE Num("Complex", leaf.n, leaf.im)

CastList(data, cat) ==
    Nested(data.dim,
           [r \in 1..Len(data.rows) |->
               [c \in 1..Len(data.rows[r]) |-> CategoryCast(data.rows[r][c], cat)]])

\* C6: for every valid nested numeric list D and every resolvable type
\* specification T, NumericArray[D, T] is an array whose normal form is a
\* nested list of the shape of D whose leaves are the leaves of D cast to
\* the element category of T.
C6_RoundTrip ==
    (call.pc # "pending" /\ ValidNumericList(call.data) /\ call.resolved.valid)
        => /\ call.result = "atom"
           /\ call.pc = "normal" =>
                  call.normal = CastList(call.data,
                                    ElementCategory(call.resolved.dtype, call.data))

\* Data that has no numeric buffer: a NumericArray expression without an
\* atom, a list whose conversion raises, a ragged list, a list with a leaf
\* that is no number.
Uncoercible(data) ==
    \/ data.kind = "wrapped_none"
    \/ /\ data.kind = "list"
       /\ \/ data.py = "raise"
          \/ IsRagged(data)
          \/ \E i \in 1..Len(LeavesOf(data)) :
                 LeavesOf(data)[i].cat \in {"String", "Symbol"}

\* C7: data that cannot be coerced to a numeric buffer makes the
\* construction report the data message once and return $Failed, on every
\* branch of the coercion, and never an exception.
C7_UncoercibleDataFails ==
    (call.pc # "pending" /\ call.resolved.valid /\ Uncoercible(call.data))
        => (call.result = "failed" /\ call.msgs = <<"data">>)

\* The type specification is the Automatic sentinel.
IsAutomatic(typespec) ==
    IF typespec.kind = "Other" THEN typespec.py = "Automatic"
    ELSE typespec.name = "Automatic"

\* C8: for every type specification the resolver returns exactly one of:
\* no tag and ok, for Automatic; a numeric tag and ok; no tag and not ok
\* with the type message reported once for the specification.  It never
\* raises.
C8_ResolverOutcomes ==
    call.pc # "pending" =>
        /\ ~call.resolved.raised
        /\ \/ /\ call.resolved.valid
              /\ call.resolved.dtype = NoTag
              /\ IsAutomatic(call.typespec)
              /\ call.resolved.msgs = <<>>
           \/ /\ call.resolved.valid
              /\ IsNumericDtype(call.resolved.dtype)
              /\ call.resolved.msgs = <<>>
           \/ /\ ~call.resolved.valid
              /\ call.resolved.dtype = NoTag
              /\ call.resolved.msgs = <<"type">>

\* The data carries a buffer of its own.
HasBuffer(data) == data.kind \in {"atom", "wrapped_value", "wrapped_atom"}

\* C9: whenever the coercion succeeds the tag of the buffer is numeric; it
\* is the requested tag when one was requested; the buffer of an existing
\* atom is the result itself unless the requested tag differs from its own,
\* and then the result is another buffer.
C9_CoercedBufferIsNumeric ==
    call.result = "atom" =>
        /\ IsNumericDtype(call.array.tag)
        /\ call.resolved.dtype # NoTag => call.array.tag = call.resolved.dtype
        /\ HasBuffer(call.data) =>
               IF call.resolved.dtype = NoTag
                  \/ call.resolved.dtype = call.data.buf.tag
               THEN call.array = call.data.buf
               ELSE call.array.id # call.data.buf.id

\* An existing atom was coerced to another tag than its own.
C9_Witness ==
    /\ call.result = "atom"
    /\ call.data.kind = "atom"
    /\ call.resolved.dtype # NoTag
    /\ call.resolved.dtype # call.data.buf.tag
    /\ call.array.tag = call.resolved.dtype
    /\ call.array.id # call.data.buf.id

\* The scalars of a buffer, in its encoding.
ScalarsOf(value) ==
    {Flat(value)[i] : i \in 1..Len(Flat(value))} \ {Open, Close}

\* The element category of a buffer: numpy gives an empty buffer the
\* floating category.
BufferCategory(value) ==
    IF Str \in ScalarsOf(value) THEN "str"
    ELSE IF ScalarsOf(value) = {} THEN "float"
    ELSE "int"

\* The categories a dense list node accepts: numeric or Boolean.
Promotable(cat) == cat \in {"int", "float", "complex", "bool"}

\* C11: constructing a dense lazy list node over a buffer whose element
\* category is neither numeric nor Boolean fails at construction, so no
\* lazy node over such a buffer ever exists, materialized or not.
C11_UnsupportedCategoryRejected ==
    \A n \in LazyNodes(heap) : Promotable(BufferCategory(heap[n].value))

====
